---- MODULE Spec2Model ----
(***************************************************************************)
(* Leaflet.FreeDraw: the pointer-event state machine of src/FreeDraw.js    *)
(* (listenForEvents: mouseDown, touchStart, mouseMove, mouseUp), the       *)
(* facade (create, remove, clear, mode, cancel) and the lifecycle (onAdd,  *)
(* onRemove) of one FreeDraw instance on one map.                          *)
(*                                                                         *)
(* The helpers imported from ./helpers (createFor, removeFor, clearFor,    *)
(* updateFor, modeFor, the flag constants) are not part of the source      *)
(* tree; they are modelled from the specification's sections 4.1, 4.3 and  *)
(* 6.  Leaflet (map.on/off, DomEvent.on/off, the projection) and the DOM   *)
(* are the host: listeners are (target, type, handler) triples and         *)
(* registration is idempotent, as in both Leaflet and the DOM.             *)
(***************************************************************************)
EXTENDS Integers, Sequences, FiniteSets, TLC

\* ---------------------------------------------------------------- bounds
\* Longest point collection a stroke may accumulate.
MaxStroke == 3
\* The segments on the canvas are counted up to this many.
MaxSegments == 1
\* Number of polygon identities; the Store holds at most this many.
MaxStore == 2

\* ----------------------------------------------------------------- flags
NONE == 0
CREATE == 1
ALL == 15
\* maximumPolygons: Infinity (defaultOptions).
Infinity == 1000

\* `m & flag` for a single-bit flag.
HasFlag(m, flag) == (m \div flag) % 2 = 1
\* `m ^ flag` for a single-bit flag.
Xor(m, flag) == IF HasFlag(m, flag) THEN m - flag ELSE m + flag

\* ------------------------------------------------------------- listeners
\* The handlers mouseDown registers for the gesture, and touchStart's two.
MapMouseMove == <<"map", "mousemove", "mouseMove">>
MapMouseUp == <<"map", "mouseup", "mouseUp">>
TouchMove == <<"container", "touchmove", "mouseMove">>
TouchEnd == <<"container", "touchend", "mouseUp">>
BodyMouseLeave == <<"body", "mouseleave", "mouseUp">>
\* The two listenForEvents registers on attach.
ContainerMouseDown == <<"container", "mousedown", "mouseDown">>
ContainerTouchStart == <<"container", "touchstart", "touchStart">>

GestureListeners == {MapMouseMove, MapMouseUp, TouchMove, TouchEnd, BodyMouseLeave}

\* --------------------------------------------------------------- options
defaultOptions ==
    [ mode |-> ALL, mergePolygons |-> TRUE, concavePolygon |-> TRUE,
      maximumPolygons |-> Infinity, leaveModeAfterCreate |-> FALSE ]

\* { ...a, ...b }
Spread(a, b) ==
    [ k \in (DOMAIN a) \cup (DOMAIN b) |-> IF k \in DOMAIN b THEN b[k] ELSE a[k] ]

\* The option objects a caller passes to the constructor.
ConstructorOptions ==
    { [ mode |-> ALL ],
      [ maximumPolygons |-> 1, leaveModeAfterCreate |-> TRUE, mergePolygons |-> FALSE ] }

\* The option objects a caller passes to create(); the first is its default.
DefaultCreateOptions == [ concavePolygon |-> FALSE ]
CreateOptions ==
    { DefaultCreateOptions, [ maximumPolygons |-> Infinity ] }

\* The values a caller passes to mode(): numbers (one with a bit outside ALL)
\* and null, by their typeof.
OutOfRangeMode == (ALL + 1) + CREATE
ModeArgs ==
    { [ type |-> "number", value |-> v ] : v \in { NONE, OutOfRangeMode } }
        \cup { [ type |-> "object", value |-> 0 ] }

\* How a mode() argument is named in `handler`: its typeof, and its value
\* when it is a number.
ModeLabel(arg) ==
    IF arg.type = "number" THEN "number " \o ToString(arg.value) ELSE arg.type

\* remove() without a polygon.
NoPolygon == 0
\* A handler that returns nothing.
NoValue == -1

VARIABLES
    phase,          \* "constructed", "attached" (after onAdd), "detached" (after onRemove)
    options,        \* this.options
    modes,          \* map[modesKey]
    cancel,         \* map[cancelKey]: "undefined", "noop" or "mouseUp" (() => mouseUp({}, false))
    appendages,     \* what else hangs off the map: instanceKey, notifyDeferredKey, simplifyPolygon, svg
    hasPolygons,    \* polygons.has(map)
    polygons,       \* polygons.get(map): the Set of stored polygons
    listeners,      \* registered (target, type, handler) triples
    latLngs,        \* the closure's latLngs Set, in insertion order
    lineIterator,   \* the closure's lineIterator: "undefined" or "path" (createPath's closure)
    svg,            \* the number of path children of the SVG canvas, up to MaxSegments
    calls,          \* the helper calls of the last handler run, in order, each with what it saw
    threw,          \* whether the last handler run ended in a TypeError
    returned,       \* what the last facade call returned (mode), else NoValue
    handler         \* the last handler run: [name, type], type being the event's type,
                    \* mode()'s argument (ModeLabel), the cap option create() was passed,
                    \* or the polygon remove() was passed

vars ==
    << phase, options, modes, cancel, appendages, hasPolygons, polygons, listeners,
       latLngs, lineIterator, svg, calls, threw, returned, handler >>

\* The state as one record, which the handlers below transform.
State ==
    [ phase |-> phase, options |-> options, modes |-> modes, cancel |-> cancel,
      appendages |-> appendages, hasPolygons |-> hasPolygons, polygons |-> polygons,
      listeners |-> listeners, latLngs |-> latLngs, lineIterator |-> lineIterator,
      svg |-> svg, calls |-> <<>>, threw |-> FALSE, returned |-> NoValue ]

Commit(s, name, type) ==
    /\ phase' = s.phase
    /\ options' = s.options
    /\ modes' = s.modes
    /\ cancel' = s.cancel
    /\ appendages' = s.appendages
    /\ hasPolygons' = s.hasPolygons
    /\ polygons' = s.polygons
    /\ listeners' = s.listeners
    /\ latLngs' = s.latLngs
    /\ lineIterator' = s.lineIterator
    /\ svg' = s.svg
    /\ calls' = s.calls
    /\ threw' = s.threw
    /\ returned' = s.returned
    /\ handler' = [ name |-> name, type |-> type ]

\* ------------------------------------------------------------------ host
\* The DOM pointer events delivered: their client coordinates.
Events ==
    { [ clientX |-> 0, clientY |-> 0 ], [ clientX |-> 1, clientY |-> 0 ],
      [ clientX |-> 1, clientY |-> 1 ] }

\* The pointer-down events: at the client origin and off it.
DownEvents == { e \in Events : e.clientY = 0 }

\* map.mouseEventToContainerPoint: the container fills the viewport.
mouseEventToContainerPoint(e) == << e.clientX, e.clientY >>
\* map.containerPointToLatLng: latitude grows upwards, pixel y downwards.
containerPointToLatLng(point) == [ lat |-> 0 - point[2], lng |-> point[1] ]

\* Set.prototype.add: membership is by object identity (ref).
SetAdd(set, obj) ==
    IF \E i \in 1..Len(set) : set[i].ref = obj.ref THEN set ELSE Append(set, obj)

\* A newly allocated LatLng object: a reference no member of the set has.
NewLatLng(set, ll) == [ ref |-> Len(set) + 1, lat |-> ll.lat, lng |-> ll.lng ]

\* --------------------------------------------------------------- helpers
\* What a helper sees when it is called.
Call(s, fn, reason, points) ==
    [ fn |-> fn, reason |-> reason, latLngs |-> points,
      listeners |-> s.listeners, svg |-> s.svg, polygons |-> s.polygons ]

Record(s, fn, reason, points) ==
    [ s EXCEPT !.calls = Append(@, Call(s, fn, reason, points)) ]

Throw(s) == [ s EXCEPT !.threw = TRUE ]

PolygonIds == 1..MaxStore
FreshId(store) ==
    CHOOSE i \in PolygonIds \ store : \A j \in PolygonIds \ store : i <= j

\* The distinct vertices of a point sequence.
Vertices(points) == { << points[i].lat, points[i].lng >> : i \in 1..Len(points) }

\* helpers/Polygon createFor: section 4.3 steps 1-7.  `overlapping` is the
\* outcome of the geometric overlap test against the stored polygons.
createFor(s, points, opts, overlapping) ==
    LET s1 == Record(s, "createFor", "", points)
        merged == IF opts.mergePolygons THEN overlapping \cap s.polygons ELSE {}
        kept == s.polygons \ merged
    IN  IF ~s.hasPolygons THEN Throw(s1)
        ELSE IF Cardinality(Vertices(points)) < 3 THEN s1
        ELSE IF Cardinality(kept) + 1 > opts.maximumPolygons THEN s1
        ELSE [ s1 EXCEPT !.polygons = kept \cup { FreshId(s.polygons) } ]

\* helpers/Polygon removeFor.
removeFor(s, polygon) ==
    LET s1 == Record(s, "removeFor", "", <<>>)
    IN  IF ~s.hasPolygons THEN Throw(s1)
        ELSE [ s1 EXCEPT !.polygons = @ \ { polygon } ]

\* helpers/Polygon clearFor.
clearFor(s) ==
    LET s1 == Record(s, "clearFor", "", <<>>)
    IN  IF ~s.hasPolygons THEN Throw(s1) ELSE [ s1 EXCEPT !.polygons = {} ]

\* helpers/Layer updateFor: the change notification, carrying the polygon list.
updateFor(s, reason) ==
    IF ~s.hasPolygons \/ "instanceKey" \notin s.appendages THEN Throw(s)
    ELSE Record(s, "updateFor", reason, <<>>)

\* helpers/Flags modeFor: bits outside ALL are masked off.
modeFor(s, mode, opts) == [ s EXCEPT !.modes = mode % (ALL + 1) ]

\* ------------------------------------------------------------ FreeDraw.js
\* createPath: the closure it returns.  The geometry of a segment (lastPoint
\* to toPoint) is not tracked: the canvas is the number of its path children.
createPath(fromPoint) == "path"

\* lineIterator(toPoint): svg.append('path'); a TypeError when undefined.
lineIteratorCall(s, toPoint) ==
    IF s.lineIterator = "undefined" THEN Throw(s)
    ELSE [ s EXCEPT !.svg = IF @ < MaxSegments THEN @ + 1 ELSE @ ]

mouseMove(s, event) ==
    LET point == mouseEventToContainerPoint(event)
        s1 == [ s EXCEPT !.latLngs =
                    SetAdd(@, NewLatLng(@, containerPointToLatLng(point))) ]
    IN  lineIteratorCall(s1, point)

\* mode setting the ModeSet only for a number within ALL.
mode_ChecksRange(s, arg) ==
    LET s1 == IF arg.type = "number" /\ arg.value \in 0..ALL
              THEN modeFor(s, arg.value, s.options) ELSE s
    IN  [ s1 EXCEPT !.returned = s1.modes ]

\* this.mode(mode): `arg` is the argument with its typeof.
mode(s, arg) ==
    LET s1 == IF arg.type = "number" THEN modeFor(s, arg.value, s.options) ELSE s
    IN  [ s1 EXCEPT !.returned = s1.modes ]

\* mouseUp without document.body.removeEventListener('mouseleave', mouseUp).
mouseUp_KeepsBodyListener(s, event, create, overlapping) ==
    IF event.type = "pointercancel" THEN s
    ELSE
        LET s1 == [ s EXCEPT !.cancel = "noop" ]
            s2 == [ s1 EXCEPT !.listeners = @ \ (GestureListeners \ { BodyMouseLeave }) ]
            s3 == [ s2 EXCEPT !.svg = 0 ]
            s4 == IF Len(s3.latLngs) > 0
                  THEN createFor(s3, s3.latLngs, s3.options, overlapping)
                  ELSE s3
            s5 == IF s4.threw THEN s4 ELSE updateFor(s4, "create")
            s6 == IF s5.threw \/ ~s5.options.leaveModeAfterCreate THEN s5
                  ELSE [ mode(s5, [ type |-> "number", value |-> Xor(s5.modes, CREATE) ])
                           EXCEPT !.returned = NoValue ]
        IN  IF create THEN s6 ELSE s3

\* mouseUp treating a pointercancel as a cancellation instead of ignoring it.
mouseUp_PointerCancelTearsDown(s, event, create, overlapping) ==
    LET s1 == [ s EXCEPT !.cancel = "noop" ]
        s2 == [ s1 EXCEPT !.listeners = @ \ GestureListeners ]
        s3 == [ s2 EXCEPT !.svg = 0 ]
        s4 == IF Len(s3.latLngs) > 0
              THEN createFor(s3, s3.latLngs, s3.options, overlapping)
              ELSE s3
        s5 == IF s4.threw THEN s4 ELSE updateFor(s4, "create")
        s6 == IF s5.threw \/ ~s5.options.leaveModeAfterCreate THEN s5
              ELSE [ mode(s5, [ type |-> "number", value |-> Xor(s5.modes, CREATE) ])
                       EXCEPT !.returned = NoValue ]
    IN  IF create /\ event.type # "pointercancel" THEN s6 ELSE s3

\* mouseUp without map[cancelKey] = () => {}.
mouseUp_LeavesCancelArmed(s, event, create, overlapping) ==
    IF event.type = "pointercancel" THEN s
    ELSE
        LET s2 == [ s EXCEPT !.listeners = @ \ GestureListeners ]
            s3 == [ s2 EXCEPT !.svg = 0 ]
            s4 == IF Len(s3.latLngs) > 0
                  THEN createFor(s3, s3.latLngs, s3.options, overlapping)
                  ELSE s3
            s5 == IF s4.threw THEN s4 ELSE updateFor(s4, "create")
            s6 == IF s5.threw \/ ~s5.options.leaveModeAfterCreate THEN s5
                  ELSE [ mode(s5, [ type |-> "number", value |-> Xor(s5.modes, CREATE) ])
                           EXCEPT !.returned = NoValue ]
        IN  IF create THEN s6 ELSE s3

\* mouseUp building the polygon before the listeners are removed and the
\* canvas cleared.
mouseUp_BuildsBeforeTeardown(s, event, create, overlapping) ==
    IF event.type = "pointercancel" THEN s
    ELSE
        LET s1 == [ s EXCEPT !.cancel = "noop" ]
            s2 == IF create /\ Len(s1.latLngs) > 0
                  THEN createFor(s1, s1.latLngs, s1.options, overlapping)
                  ELSE s1
            s3 == [ s2 EXCEPT !.listeners = @ \ GestureListeners ]
            s4 == [ s3 EXCEPT !.svg = 0 ]
            s5 == IF s4.threw THEN s4 ELSE updateFor(s4, "create")
            s6 == IF s5.threw \/ ~s5.options.leaveModeAfterCreate THEN s5
                  ELSE [ mode(s5, [ type |-> "number", value |-> Xor(s5.modes, CREATE) ])
                           EXCEPT !.returned = NoValue ]
        IN  IF create THEN s6 ELSE s4

\* mouseUp notifying only when the stroke holds a point:
\* latLngs.size && (createFor(...), updateFor(...)).
mouseUp_NotifiesOnlyWithPoints(s, event, create, overlapping) ==
    IF event.type = "pointercancel" THEN s
    ELSE
        LET s1 == [ s EXCEPT !.cancel = "noop" ]
            s2 == [ s1 EXCEPT !.listeners = @ \ GestureListeners ]
            s3 == [ s2 EXCEPT !.svg = 0 ]
            s4 == IF Len(s3.latLngs) > 0
                  THEN createFor(s3, s3.latLngs, s3.options, overlapping)
                  ELSE s3
            s5 == IF s4.threw \/ Len(s3.latLngs) = 0 THEN s4 ELSE updateFor(s4, "create")
            s6 == IF s5.threw \/ ~s5.options.leaveModeAfterCreate THEN s5
                  ELSE [ mode(s5, [ type |-> "number", value |-> Xor(s5.modes, CREATE) ])
                           EXCEPT !.returned = NoValue ]
        IN  IF create THEN s6 ELSE s3

\* mouseUp adding the point of release to the stroke before building.
mouseUp_AddsReleasePoint(s, event, create, overlapping) ==
    IF event.type = "pointercancel" THEN s
    ELSE
        LET s1 == [ s EXCEPT !.cancel = "noop" ]
            s2 == [ s1 EXCEPT !.listeners = @ \ GestureListeners ]
            s3 == [ s2 EXCEPT !.svg = 0 ]
            s4 == IF create
                  THEN [ s3 EXCEPT !.latLngs = SetAdd(@, NewLatLng(@,
                                        containerPointToLatLng(<< 2, 2 >>))) ]
                  ELSE s3
            s5 == IF Len(s4.latLngs) > 0
                  THEN createFor(s4, s4.latLngs, s4.options, overlapping)
                  ELSE s4
            s6 == IF s5.threw THEN s5 ELSE updateFor(s5, "create")
            s7 == IF s6.threw \/ ~s6.options.leaveModeAfterCreate THEN s6
                  ELSE [ mode(s6, [ type |-> "number", value |-> Xor(s6.modes, CREATE) ])
                           EXCEPT !.returned = NoValue ]
        IN  IF create THEN s7 ELSE s3

mouseUp(s, event, create, overlapping) ==
    IF event.type = "pointercancel" THEN s
    ELSE
        LET s1 == [ s EXCEPT !.cancel = "noop" ]
            s2 == [ s1 EXCEPT !.listeners = @ \ GestureListeners ]
            s3 == [ s2 EXCEPT !.svg = 0 ]
            s4 == IF Len(s3.latLngs) > 0
                  THEN createFor(s3, s3.latLngs, s3.options, overlapping)
                  ELSE s3
            s5 == IF s4.threw THEN s4 ELSE updateFor(s4, "create")
            s6 == IF s5.threw \/ ~s5.options.leaveModeAfterCreate THEN s5
                  ELSE [ mode(s5, [ type |-> "number", value |-> Xor(s5.modes, CREATE) ])
                           EXCEPT !.returned = NoValue ]
        IN  IF create THEN s6 ELSE s3

\* mouseDown gating on the mode the engine was configured with
\* (options.mode) instead of map[modesKey].
mouseDown_GatesOnInitialMode(s, event) ==
    IF ~HasFlag(s.options.mode, CREATE) THEN s
    ELSE IF event.clientX = 0 /\ event.clientY = 0 THEN s
    ELSE
        LET s1 == [ s EXCEPT !.latLngs = <<>>, !.lineIterator = "undefined" ]
            s2 == [ s1 EXCEPT !.lineIterator =
                        createPath(mouseEventToContainerPoint(event)) ]
            s3 == IF ~event.touches
                  THEN [ s2 EXCEPT !.listeners = @ \cup { MapMouseMove, MapMouseUp } ]
                  ELSE s2
            s4 == [ s3 EXCEPT !.listeners = @ \cup { BodyMouseLeave } ]
        IN  [ s4 EXCEPT !.cancel = "mouseUp" ]

mouseDown(s, event) ==
    IF ~HasFlag(s.modes, CREATE) THEN s
    ELSE IF event.clientX = 0 /\ event.clientY = 0 THEN s
    ELSE
        LET s1 == [ s EXCEPT !.latLngs = <<>>, !.lineIterator = "undefined" ]
            s2 == [ s1 EXCEPT !.lineIterator =
                        createPath(mouseEventToContainerPoint(event)) ]
            s3 == IF ~event.touches
                  THEN [ s2 EXCEPT !.listeners = @ \cup { MapMouseMove, MapMouseUp } ]
                  ELSE s2
            s4 == [ s3 EXCEPT !.listeners = @ \cup { BodyMouseLeave } ]
        IN  [ s4 EXCEPT !.cancel = "mouseUp" ]

\* _simulateEvent('mousedown', e): a MouseEvent with e's client coordinates,
\* dispatched synchronously to the container's mousedown listeners.
simulateEvent(s, e) ==
    IF ContainerMouseDown \in s.listeners
    THEN mouseDown(s, [ clientX |-> e.clientX, clientY |-> e.clientY, touches |-> FALSE ])
    ELSE s

touchStart(s, event) ==
    IF ~HasFlag(s.modes, CREATE) THEN s
    ELSE
        LET s1 == [ s EXCEPT !.listeners = @ \cup { TouchMove, TouchEnd } ]
        IN  simulateEvent(s1, event)

listenForEvents(s) ==
    [ s EXCEPT !.latLngs = <<>>, !.lineIterator = "undefined",
               !.listeners = @ \cup { ContainerMouseDown, ContainerTouchStart } ]

onAdd(s) ==
    LET s1 == [ s EXCEPT !.phase = "attached", !.cancel = "noop",
                         !.appendages = @ \cup { "instanceKey", "notifyDeferredKey",
                                                 "simplifyPolygon" },
                         !.hasPolygons = TRUE, !.polygons = {} ]
        s2 == modeFor(s1, s1.options.mode, s1.options)
        s3 == [ s2 EXCEPT !.appendages = @ \cup { "svg" }, !.svg = 0 ]
    IN  listenForEvents(s3)

onRemove(s) ==
    LET s1 == [ s EXCEPT !.phase = "detached", !.hasPolygons = FALSE, !.polygons = {} ]
        s2 == [ s1 EXCEPT !.appendages = @ \ { "svg" } ]
        s3 == [ s2 EXCEPT !.cancel = "undefined",
                          !.appendages = @ \ { "instanceKey", "simplifyPolygon" } ]
    IN  [ s3 EXCEPT !.listeners = @ \ { << "map", "mousedown", "mouseDown" >>,
                                        << "map", "touchstart", "mouseDown" >> } ]

\* create passing only its own options on: createFor(map, latLngs, options).
create_IgnoresEngineOptions(s, points, opts, overlapping) ==
    LET s1 == createFor(s, points, Spread(defaultOptions, opts), overlapping)
    IN  IF s1.threw THEN s1 ELSE updateFor(s1, "create")

create(s, points, opts, overlapping) ==
    LET s1 == createFor(s, points, Spread(s.options, opts), overlapping)
    IN  IF s1.threw THEN s1 ELSE updateFor(s1, "create")

\* remove(polygon) emptying the Store: clearFor(this.map) for removeFor.
remove_ClearsStore(s, polygon) ==
    LET s1 == IF polygon # NoPolygon THEN clearFor(s) ELSE onRemove(s)
    IN  IF s1.threw THEN s1 ELSE updateFor(s1, "remove")

remove(s, polygon) ==
    LET s1 == IF polygon # NoPolygon THEN removeFor(s, polygon) ELSE onRemove(s)
    IN  IF s1.threw THEN s1 ELSE updateFor(s1, "remove")

\* clear notifying before it empties the Store.
clear_NotifiesFirst(s) ==
    LET s1 == updateFor(s, "clear")
    IN  IF s1.threw THEN s1 ELSE clearFor(s1)

clear(s) ==
    LET s1 == clearFor(s)
    IN  IF s1.threw THEN s1 ELSE updateFor(s1, "clear")

\* The cancel hook set up as () => mouseUp({}): create defaults to true.
cancelCall_Creates(s) ==
    CASE s.cancel = "mouseUp" -> mouseUp(s, [ type |-> "undefined" ], TRUE, {})
      [] s.cancel = "noop" -> s
      [] OTHER -> Throw(s)

\* cancel(): this.map[cancelKey]()
cancelCall(s) ==
    CASE s.cancel = "mouseUp" -> mouseUp(s, [ type |-> "undefined" ], FALSE, {})
      [] s.cancel = "noop" -> s
      [] OTHER -> Throw(s)

\* ---------------------------------------------------------------- inputs
LatLngArray(coords) ==
    [ i \in 1..Len(coords) |->
        [ ref |-> i, lat |-> coords[i][1], lng |-> coords[i][2] ] ]

\* The point arrays a caller passes to create(): two points, a triangle.
CreateInputs ==
    { LatLngArray(<< <<0, 0>>, <<1, 1>> >>),
      LatLngArray(<< <<0, 0>>, <<0, 1>>, <<1, 1>> >>) }

\* The create() calls explored: the triangle with every option object, the
\* two-point array with the default one.
CreateCalls ==
    { c \in CreateInputs \X CreateOptions :
        Cardinality(Vertices(c[1])) >= 3 \/ c[2] = DefaultCreateOptions }

\* The outcomes of the overlap test of `points` against the stored polygons.
Overlaps(s, points, opts) ==
    IF opts.mergePolygons /\ Cardinality(Vertices(points)) >= 3
    THEN SUBSET s.polygons ELSE { {} }

\* A polygon identity is free unless the builder is not going to insert.
HasRoom(s, points) ==
    \/ Cardinality(Vertices(points)) < 3
    \/ ~s.hasPolygons
    \/ s.polygons # PolygonIds

\* --------------------------------------------------------------- actions
Init ==
    /\ phase = "constructed"
    /\ options \in { Spread(defaultOptions, o) : o \in ConstructorOptions }
    /\ modes = NONE
    /\ cancel = "undefined"
    /\ appendages = {}
    /\ hasPolygons = FALSE
    /\ polygons = {}
    /\ listeners = {}
    /\ latLngs = <<>>
    /\ lineIterator = "undefined"
    /\ svg = 0
    /\ calls = <<>>
    /\ threw = FALSE
    /\ returned = NoValue
    /\ handler = [ name |-> "constructor", type |-> "" ]

Attach ==
    /\ phase = "constructed"
    /\ Commit(onAdd(State), "onAdd", "")

Detach ==
    /\ phase = "attached"
    /\ Commit(onRemove(State), "onRemove", "")

Create ==
    /\ phase = "attached"
    /\ \E c \in CreateCalls :
        LET points == c[1]
            opts == c[2]
        IN  /\ HasRoom(State, points)
            /\ \E ov \in Overlaps(State, points, Spread(options, opts)) :
                Commit(create(State, points, opts, ov), "create",
                       IF "maximumPolygons" \in DOMAIN opts THEN "maximumPolygons" ELSE "")

Remove ==
    /\ phase = "attached"
    /\ \E polygon \in PolygonIds \cup { NoPolygon } :
        Commit(remove(State, polygon), "remove",
               IF polygon = NoPolygon THEN "undefined" ELSE ToString(polygon))

Clear ==
    /\ phase = "attached"
    /\ Commit(clear(State), "clear", "")

Mode ==
    /\ phase = "attached"
    /\ \E arg \in ModeArgs : Commit(mode(State, arg), "mode", ModeLabel(arg))

Cancel ==
    /\ phase = "attached"
    /\ Commit(cancelCall(State), "cancel", "")

MouseDownEvent ==
    /\ ContainerMouseDown \in listeners
    /\ \E e \in DownEvents :
        Commit(mouseDown(State, [ clientX |-> e.clientX, clientY |-> e.clientY,
                                  touches |-> FALSE ]), "mouseDown", "mousedown")

TouchStartEvent ==
    /\ ContainerTouchStart \in listeners
    /\ \E e \in DownEvents : Commit(touchStart(State, e), "touchStart", "touchstart")

MouseMoveEvent ==
    /\ MapMouseMove \in listeners
    /\ Len(latLngs) < MaxStroke
    /\ \E e \in Events : Commit(mouseMove(State, e), "mouseMove", "")

TouchMoveEvent ==
    /\ TouchMove \in listeners
    /\ Len(latLngs) < MaxStroke
    /\ \E e \in Events : Commit(mouseMove(State, e), "mouseMove", "")

\* An event of `type` delivered to mouseUp through one of its registrations.
Deliver(type) ==
    /\ HasRoom(State, latLngs)
    /\ \E ov \in Overlaps(State, latLngs, options) :
        Commit(mouseUp(State, [ type |-> type ], TRUE, ov), "mouseUp", type)

MouseUpEvent ==
    /\ MapMouseUp \in listeners
    /\ Deliver("mouseup")

TouchEndEvent ==
    /\ TouchEnd \in listeners
    /\ Deliver("touchend")

PointerCancelEvent ==
    /\ TouchEnd \in listeners
    /\ Deliver("pointercancel")

BodyMouseLeaveEvent ==
    /\ BodyMouseLeave \in listeners
    /\ Deliver("mouseleave")

Next ==
    \/ Attach
    \/ Detach
    \/ Create
    \/ Remove
    \/ Clear
    \/ Mode
    \/ Cancel
    \/ MouseDownEvent
    \/ TouchStartEvent
    \/ MouseMoveEvent
    \/ TouchMoveEvent
    \/ MouseUpEvent
    \/ TouchEndEvent
    \/ PointerCancelEvent
    \/ BodyMouseLeaveEvent

Spec == Init /\ [][Next]_vars

\* ------------------------------------------------------------ vocabulary
\* Everything but the record of the last handler run.
program ==
    << phase, options, modes, cancel, appendages, hasPolygons, polygons, listeners,
       latLngs, lineIterator, svg >>

\* The engine's states: Capturing while the cancel hook is armed.
Capturing == cancel = "mouseUp"
Idle == cancel = "noop"

\* The gesture listeners still registered.
Registered == listeners \cap GestureListeners

\* The builder invocations and the notifications of the last handler run.
Built == SelectSeq(calls, LAMBDA c : c.fn = "createFor")
Notified == SelectSeq(calls, LAMBDA c : c.fn = "updateFor")

\* A pointer-up proper: mouseUp run for a mouseup or a touchend.
PointerUp == handler.name = "mouseUp" /\ handler.type \in { "mouseup", "touchend" }

\* ---------------------------------------------------------------- claims

\* C1 (as stated): a body-mouseleave during Capturing cancels the session:
\* the builder is not invoked, the Store is unchanged, nothing is notified.
C1_BodyLeaveCancels ==
    [][ (Capturing /\ handler'.type = "mouseleave")
            => (calls' = <<>> /\ polygons' = polygons) ]_vars

\* C1 (amended): on an attached engine a body-mouseleave runs mouseUp with
\* create = true, exactly as a pointer-up: hook reset, listeners removed,
\* canvas cleared, the builder invoked once with the stroke iff it holds a
\* point, and one "create" notification carrying the Store.
C1_BodyLeaveCompletes ==
    (handler.type = "mouseleave" /\ phase = "attached")
        => /\ Idle /\ Registered = {} /\ svg = 0 /\ ~threw
           /\ Len(Built) = (IF Len(latLngs) > 0 THEN 1 ELSE 0)
           /\ \A i \in 1..Len(Built) : Built[i].latLngs = latLngs
           /\ Len(Notified) = 1
           /\ Notified[1].reason = "create" /\ Notified[1].polygons = polygons
           /\ calls = Built \o Notified

\* C1 witness: a body-mouseleave whose stroke became a stored polygon.
C1_Witness ==
    /\ handler.type = "mouseleave" /\ phase = "attached"
    /\ Len(Built) = 1 /\ Built[1].polygons # polygons
    /\ Len(Notified) = 1

\* C2 (as stated): a pointercancel during Capturing aborts like cancel():
\* Idle, listeners removed, canvas cleared, hook a no-op, nothing built or notified.
C2_PointerCancelAborts ==
    [][ (Capturing /\ handler'.type = "pointercancel")
            => (cancel' = "noop" /\ listeners' \cap GestureListeners = {}
                /\ svg' = 0 /\ calls' = <<>>) ]_vars

\* C2 (amended): a pointercancel delivered to mouseUp is ignored: the handler
\* returns before any teardown, so nothing changes (a Capturing session stays
\* Capturing with its listeners, canvas and points), nothing is built or notified.
C2_PointerCancelIgnored ==
    [][ handler'.type = "pointercancel"
            => (UNCHANGED program /\ calls' = <<>> /\ ~threw') ]_vars

\* C2 witness: after a pointercancel the session is still Capturing, with
\* points, segments and the touch listeners in place.
C2_Witness ==
    /\ handler.type = "pointercancel"
    /\ Capturing /\ TouchEnd \in listeners /\ Len(latLngs) > 0 /\ svg > 0

\* C3: a pointer-down (mousedown or touchstart) delivered while CREATE is
\* unset in the ModeSet of that moment changes nothing: no listener is
\* registered, the cancel hook is not armed, stroke, canvas and Store stay.
C3_ModeGating ==
    [][ (handler'.name \in { "mouseDown", "touchStart" } /\ ~HasFlag(modes, CREATE))
            => (UNCHANGED program /\ calls' = <<>>) ]_vars

\* C3 witness: a pointer-down right after mode() unset CREATE on an engine
\* constructed with CREATE set; the engine is still Idle, nothing registered.
C3_Witness ==
    /\ handler.name \in { "mouseDown", "touchStart" }
    /\ HasFlag(options.mode, CREATE) /\ ~HasFlag(modes, CREATE)
    /\ Idle /\ Registered = {}

\* C4 (as stated): whenever the engine is Idle none of the gesture listeners
\* is registered.
C4_IdleHasNoListeners ==
    Idle => Registered = {}

\* C5: cancel() on an attached engine leaves the hook a no-op (so a second
\* call finds the engine Idle), builds nothing, and while Idle changes nothing.
C5_CancelIdempotent ==
    [][ handler'.name = "cancel"
            => /\ cancel' = "noop" /\ calls' = <<>> /\ ~threw'
               /\ (Idle => UNCHANGED program) ]_vars

\* C5 witness: Idle after cancel() with a partial stroke that would have made
\* a polygon, and none stored.
C5_Witness ==
    /\ handler.name = "cancel" /\ Idle
    /\ Cardinality(Vertices(latLngs)) >= 3 /\ polygons = {}

\* C6: cancel() during Capturing removes the gesture's listeners, clears the
\* canvas, invokes no builder, notifies nothing, and leaves Store and ModeSet.
C6_CancelWhileCapturing ==
    [][ (Capturing /\ handler'.name = "cancel")
            => /\ cancel' = "noop" /\ listeners' \cap GestureListeners = {} /\ svg' = 0
               /\ calls' = <<>> /\ polygons' = polygons /\ modes' = modes ]_vars

\* C6 witness: cancel() ended a session with leaveModeAfterCreate set and
\* CREATE still set afterwards.
C6_Witness ==
    /\ handler.name = "cancel" /\ options.leaveModeAfterCreate
    /\ HasFlag(modes, CREATE) /\ Len(latLngs) > 0 /\ svg = 0 /\ Registered = {}

\* C7: on an attached engine a pointer-up runs in this order: listeners
\* removed and canvas cleared before any helper is called; then the builder,
\* once, with the stroke, iff it holds a point; then one "create"
\* notification that carries the Store as the builder left it.
C7_PointerUpOrder ==
    (PointerUp /\ phase = "attached")
        => /\ \A i \in 1..Len(calls) :
                calls[i].listeners \cap GestureListeners = {} /\ calls[i].svg = 0
           /\ calls = Built \o Notified
           /\ Len(Built) = (IF Len(latLngs) > 0 THEN 1 ELSE 0)
           /\ \A i \in 1..Len(Built) : Built[i].latLngs = latLngs
           /\ Len(Notified) = 1
           /\ Notified[1].reason = "create" /\ Notified[1].polygons = polygons

\* C7 witness: a pointer-up whose builder call changed the Store before the
\* notification.
C7_Witness ==
    /\ PointerUp /\ phase = "attached"
    /\ Len(Built) = 1 /\ Built[1].polygons # polygons
    /\ Len(Notified) = 1 /\ Notified[1].polygons = polygons

\* C8 (as stated): a pointer-up whose stroke yields no polygon (fewer than 3
\* distinct vertices) fires no notification.
C8_NoPolygonNoNotification ==
    (PointerUp /\ phase = "attached" /\ Cardinality(Vertices(latLngs)) < 3)
        => Notified = <<>>

\* C8 (amended): such a pointer-up stores nothing and still fires exactly
\* one notification, with reason "create", carrying the unchanged Store.
C8_NoPolygonStillNotifies ==
    (PointerUp /\ phase = "attached" /\ Cardinality(Vertices(latLngs)) < 3)
        => /\ Len(Notified) = 1
           /\ Notified[1].reason = "create" /\ Notified[1].polygons = polygons
           /\ \A i \in 1..Len(Built) : Built[i].polygons = polygons

\* C8 witness: a pointer-up on an empty stroke, notified all the same.
C8_Witness ==
    /\ PointerUp /\ phase = "attached"
    /\ latLngs = <<>> /\ Built = <<>> /\ Len(Notified) = 1

\* C9: a pointer-up on a stroke with fewer than 3 distinct points leaves the
\* Store as it was.
C9_ShortStrokeDropped ==
    [][ (handler'.name = "mouseUp" /\ Cardinality(Vertices(latLngs)) < 3)
            => polygons' = polygons ]_vars

\* C9 witness: a pointer-up that handed three points, two of them distinct,
\* to the builder, with a polygon already stored.
C9_Witness ==
    /\ PointerUp /\ phase = "attached"
    /\ Len(latLngs) = 3 /\ Cardinality(Vertices(latLngs)) = 2
    /\ Len(Built) = 1 /\ Built[1].polygons = polygons /\ polygons # {}

\* C10 (as stated): the Store never holds more than the engine's maximumPolygons.
C10_StoreCap ==
    hasPolygons => Cardinality(polygons) <= options.maximumPolygons

\* C10 (amended): the Store grows only within the cap of the configuration
\* in effect for that call: the engine's maximumPolygons for a gesture and
\* for a create() whose options leave it out, the per-call value otherwise.
C10_StoreCapPerCall ==
    [][ Cardinality(polygons') > Cardinality(polygons)
            => Cardinality(polygons') <=
                  (IF handler'.name = "create" /\ handler'.type = "maximumPolygons"
                   THEN Infinity ELSE options.maximumPolygons) ]_vars

\* C10 witness: create() with default options rejected at the engine's cap.
C10_Witness ==
    /\ handler.name = "create" /\ handler.type = ""
    /\ Cardinality(polygons) = options.maximumPolygons
    /\ Len(Built) = 1 /\ Cardinality(Vertices(Built[1].latLngs)) >= 3
    /\ Built[1].polygons = polygons

\* C11 (as stated): with leaveModeAfterCreate, a pointer-up that completes a
\* Capturing session leaves CREATE unset and every other bit of the ModeSet
\* as it was, whatever mode() calls came between pointer-down and pointer-up.
C11_LeaveModeUnsetsCreate ==
    [][ (Capturing /\ phase = "attached" /\ options.leaveModeAfterCreate
            /\ handler'.name = "mouseUp" /\ handler'.type \in { "mouseup", "touchend" })
            => modes' = (IF HasFlag(modes, CREATE) THEN modes - CREATE ELSE modes) ]_vars

\* C12 (as stated): after detach no listener of the engine is registered and
\* the per-map state (Store, cancel hook, instance, deferred-notify hook and
\* the other appendages) is released.
C12_DetachReleasesAll ==
    phase = "detached"
        => /\ listeners = {} /\ appendages = {}
           /\ ~hasPolygons /\ cancel = "undefined"

\* C13: on an attached engine remove(P) takes exactly P out of the Store (the
\* size drops by one when P is stored, every other polygon stays) and leaves
\* the Store unchanged when P is absent; clear() leaves the Store empty, also
\* when it was empty before; neither fails.
C13_RemoveClearIdempotent ==
    [][ /\ \A p \in PolygonIds :
              (handler'.name = "remove" /\ handler'.type = ToString(p))
                  => /\ polygons' = polygons \ { p }
                     /\ Cardinality(polygons') =
                            Cardinality(polygons) - (IF p \in polygons THEN 1 ELSE 0)
                     /\ ~threw' /\ phase' = "attached"
        /\ handler'.name = "clear" => (polygons' = {} /\ ~threw' /\ phase' = "attached")
      ]_vars

\* C13 witness: remove(P) of a polygon that is not stored, on a non-empty
\* Store that it left as it was.
C13_Witness ==
    /\ handler.name = "remove"
    /\ \E p \in PolygonIds \ polygons : handler.type = ToString(p)
    /\ polygons # {} /\ ~threw
    /\ Len(calls) = 2 /\ calls[1].fn = "removeFor" /\ calls[1].polygons = polygons

\* C14: on an attached engine each of create(), remove(polygon) and clear()
\* emits exactly one notification, tagged with the call's own name, as the
\* last thing it does: after the one Store helper it calls, carrying the
\* Store as the call leaves it.
C14_OneNotificationPerCall ==
    (phase = "attached" /\ handler.name \in { "create", "remove", "clear" })
        => /\ ~threw
           /\ Len(calls) = 2
           /\ calls[1].fn = handler.name \o "For"
           /\ Len(Notified) = 1 /\ calls[2] = Notified[1]
           /\ Notified[1].reason = handler.name
           /\ Notified[1].polygons = polygons

\* C14 witness: clear() on a non-empty Store, notified with the empty list.
C14_Witness ==
    /\ phase = "attached" /\ handler.name = "clear"
    /\ Len(calls) = 2 /\ calls[1].polygons # {}
    /\ calls[2].fn = "updateFor" /\ calls[2].polygons = {}

\* C15 (as stated): mode(x) with a non-numeric x or a number with bits
\* outside ALL is a no-op query: the ModeSet is unchanged, nothing is thrown
\* and the current ModeSet is returned.
C15_InvalidModeIsNoOp ==
    [][ \A arg \in ModeArgs :
            (handler'.name = "mode" /\ handler'.type = ModeLabel(arg)
                /\ (arg.type # "number" \/ arg.value \notin 0..ALL))
                => (modes' = modes /\ returned' = modes /\ ~threw') ]_vars

\* C15 (amended): mode(x) with a non-numeric x is a no-op query returning the
\* ModeSet; mode(m) with any number m sets the ModeSet: to m when m is within
\* ALL, to m with the bits outside ALL masked off otherwise; the new ModeSet
\* is returned, nothing is thrown and nothing else changes.
C15_ModeSetsAnyNumber ==
    [][ \A arg \in ModeArgs :
            (handler'.name = "mode" /\ handler'.type = ModeLabel(arg))
                => /\ modes' = (IF arg.type = "number" THEN arg.value % (ALL + 1) ELSE modes)
                   /\ returned' = modes' /\ ~threw' /\ calls' = <<>>
                   /\ UNCHANGED << phase, options, cancel, appendages, hasPolygons,
                                   polygons, listeners, latLngs, lineIterator, svg >>
      ]_vars

\* C15 witness: mode() with a bit outside ALL on an engine attached with ALL
\* that never leaves CREATE by itself: CREATE alone is the ModeSet now, and
\* the value returned.
C15_Witness ==
    /\ handler.name = "mode"
    /\ handler.type = ModeLabel([ type |-> "number", value |-> OutOfRangeMode ])
    /\ options.mode = ALL /\ ~options.leaveModeAfterCreate
    /\ modes = CREATE /\ returned = CREATE

\* C16 (as stated): a pointer-down (mousedown or touchstart) at client
\* coordinates (0, 0) with CREATE set is ignored: the engine stays Idle and
\* stroke, canvas, cancel hook and listeners are untouched.  With CREATE set,
\* a pointer-down leaves an Idle engine Idle only when its coordinates are
\* both zero: any other arms the cancel hook.
C16_ZeroPointerDownIgnored ==
    [][ (Idle /\ HasFlag(modes, CREATE)
            /\ handler'.name \in { "mouseDown", "touchStart" } /\ cancel' = "noop")
            => UNCHANGED program ]_vars

\* C17 (as stated): a pointer-up or touch-end delivered while Idle invokes
\* no builder and fires no notification, and leaves the Store as it was.
C17_IdlePointerUpBuildsNothing ==
    [][ (Idle /\ handler'.name = "mouseUp" /\ handler'.type \in { "mouseup", "touchend" })
            => (calls' = <<>> /\ polygons' = polygons) ]_vars

\* C18 (as stated): a mouse-move or touch-move delivered while Idle adds no
\* point to the stroke and draws no segment.
C18_IdleMoveHasNoEffect ==
    [][ (Idle /\ handler'.name = "mouseMove")
            => (latLngs' = latLngs /\ svg' = svg) ]_vars

\* C19 (as stated): in every Idle state the canvas holds no segment.
C19_IdleCanvasEmpty ==
    Idle => svg = 0

\* C20 (as stated): the sequence a pointer-up hands to the polygon builder
\* holds each latitude/longitude once.
C20_StrokeDuplicateFree ==
    PointerUp
        => \A i \in 1..Len(Built) :
              Cardinality(Vertices(Built[i].latLngs)) = Len(Built[i].latLngs)

====
